---- MODULE Spec2Model ----
(***************************************************************************)
(* Call signalling core of the websocket server: CallHandler               *)
(* (src/handlers/callHandler.js), the presence bookkeeping of ChatHandler  *)
(* (src/handlers/chatHandler.js) and the event wiring of src/server.js.    *)
(*                                                                         *)
(* Node runs a handler to completion up to its next `await` on a database  *)
(* call.  A handler with such an await is two atomic steps: the part       *)
(* before the await, and the part after it, which waits in `awaiting`      *)
(* while any other event may be handled.                                   *)
(*                                                                         *)
(* Every handler of CallHandler is an operator from the shared state (a    *)
(* record `st`) to the shared state after it, with the emit calls it made  *)
(* in st.out and the handler it left suspended, if any, in st.cont.        *)
(***************************************************************************)
EXTENDS Integers, Sequences, FiniteSets, TLC

\* The one bound of the model: connections opened, connections lost, calls
\* created, handlers suspended at an await and joiners whose answer has been
\* observed, together, in one behaviour.
MaxLoad == 4

\* The same bound for the behaviours that start in a three-party call
\* (SpecParty): what they may use on top of its four connections and one call.
PartyLoad == 1

\* In those behaviours, the steps that may write to the state of CallHandler
\* (activeCalls, userCalls, the rooms, the suspended handlers).
PartyWrites == 4

\* A count above PartyWrites stands for no bound on the writes: it is never
\* counted down.
NoLimit == PartyWrites + 1

Users == 1..3
Socks == 1..5
NoCall == 0         \* Map.get() of a missing key, a missing payload field
NoUser == 0
NoOffer == 0

\* the negotiation payloads (offer, answer, candidate) a client may send; the
\* server reads none of their content
Offers == 1..2

\* socket.userId: users 1..3 on sockets 1..3, socket 4 a second device of user 1,
\* socket 5 a second device of user 2
Owner(s) == IF s = 4 THEN 1 ELSE IF s = 5 THEN 2 ELSE s

VARIABLES
  conn,         \* per socket id: "off" | "connecting" | "ready" | "closing" | "closed"
  userSockets,  \* ChatHandler.userSockets, as the set of registered socket ids
  rooms,        \* per socket, the call rooms `call_<id>` it has joined
  activeCalls,  \* CallHandler.activeCalls: callId -> call object
  detached,     \* call objects deleted from activeCalls that a suspended handler holds
  userCalls,    \* CallHandler.userCalls: user -> callId (NoCall: no entry)
  nextCallId,   \* the call id the next created session gets
  awaiting,     \* the suspended handlers, each waiting for its database lookup
  budget,       \* the load this behaviour may use; never changes
  writes        \* the writes this behaviour may still make (NoLimit: any number)

vars == <<conn, userSockets, rooms, activeCalls, detached, userCalls, nextCallId, awaiting,
          budget, writes>>

\* ---- helpers ------------------------------------------------------------
Remove(f, k) == [x \in DOMAIN f \ {k} |-> f[x]]
Put(f, k, v) == [x \in DOMAIN f \cup {k} |-> IF x = k THEN v ELSE f[x]]
MinOf(S) == CHOOSE x \in S : \A y \in S : x <= y
DropAt(q, i) == [j \in 1..(Len(q) - 1) |-> IF j < i THEN q[j] ELSE q[j + 1]]

\* one emit call: the event, the sockets it is addressed to, the call it is
\* about and the payload fields (set with EXCEPT by the emitting handler)
Msg(ev, to, callId) ==
  [ev |-> ev, to |-> to, callId |-> callId, user |-> NoUser, by |-> NoUser,
   users |-> {}, reason |-> "", payload |-> NoOffer, name |-> ""]

\* a suspended handler: the locals it still needs when its lookup returns
Cont(kind, sock, callId) ==
  [kind |-> kind, sock |-> sock, callId |-> callId, user |-> NoUser,
   sockets |-> {}, available |-> {}, unavailable |-> {}, participants |-> {},
   offer |-> NoOffer, name |-> ""]

\* io.sockets.sockets: a socket is in the map from its connection to its close
IoSockets(cn) == {s \in Socks : cn[s] \in {"connecting", "ready"}}

\* the socket ids the transport has lost (a socket id is never used again)
Lost(cn) == {s \in Socks : cn[s] \in {"closing", "closed"}}

\* CallHandler.getUserSockets(userId), over the socket map io
getUserSockets(io, userId) == {s \in io : Owner(s) = userId}

\* CallHandler.isUserInCall(userId)
isUserInCall(st, userId) == st.userCalls[userId] # NoCall

\* io.to(`call_<id>`): the sockets that are in the room
RoomOf(rm, callId) == {s \in Socks : callId \in rm[s]}

\* the shared state the handlers read and write
Store == [activeCalls |-> activeCalls, detached |-> detached, userCalls |-> userCalls,
          rooms |-> rooms, out |-> {}, cont |-> << >>]

\* the call object a suspended handler holds: still registered, or detached
heldCall(st, callId) ==
  IF callId \in DOMAIN st.activeCalls THEN st.activeCalls[callId] ELSE st.detached[callId]

\* ---- CallHandler: termination ---------------------------------------------
\* endCall with the index cleanup restricted to the host
endCallHostOnly(st, io, callId, reason) ==
  IF callId \notin DOMAIN st.activeCalls THEN st
  ELSE
    LET call == st.activeCalls[callId]
        members == DOMAIN call.participants
    IN [st EXCEPT
          !.out = @ \cup {[Msg("call_ended", RoomOf(st.rooms, callId), callId)
                            EXCEPT !.reason = reason]},
          !.userCalls = [u \in Users |-> IF u = call.hostId THEN NoCall ELSE @[u]],
          !.rooms = [s \in Socks |->
                       IF s \in io /\ Owner(s) \in members THEN @[s] \ {callId} ELSE @[s]],
          !.activeCalls = Remove(@, callId),
          !.detached = Put(@, callId, call)]

\* endCall(callId, reason)
endCall(st, io, callId, reason) ==
  IF callId \notin DOMAIN st.activeCalls THEN st
  ELSE
    LET call == st.activeCalls[callId]
        members == DOMAIN call.participants
    IN [st EXCEPT
          !.out = @ \cup {[Msg("call_ended", RoomOf(st.rooms, callId), callId)
                            EXCEPT !.reason = reason]},
          !.userCalls = [u \in Users |-> IF u \in members THEN NoCall ELSE @[u]],
          !.rooms = [s \in Socks |->
                       IF s \in io /\ Owner(s) \in members THEN @[s] \ {callId} ELSE @[s]],
          !.activeCalls = Remove(@, callId),
          !.detached = Put(@, callId, call)]

\* handleCallEnd that ends the call only when nobody is left
handleCallEndHostStays(st, io, s) ==
  LET userId == Owner(s)
      callId == st.userCalls[userId]
  IN IF callId = NoCall \/ callId \notin DOMAIN st.activeCalls THEN st
     ELSE
       LET call == st.activeCalls[callId]
           left == Remove(call.participants, userId)
           st1 == [st EXCEPT
                     !.activeCalls[callId].participants = left,
                     !.userCalls[userId] = NoCall,
                     !.rooms[s] = @ \ {callId}]
       IN IF Cardinality(DOMAIN left) < 1 THEN endCall(st1, io, callId, "ended") ELSE st1

\* handleCallEnd that ends the call with reason `ended` whoever left
handleCallEndReasonEnded(st, io, s) ==
  LET userId == Owner(s)
      callId == st.userCalls[userId]
  IN IF callId = NoCall \/ callId \notin DOMAIN st.activeCalls THEN st
     ELSE
       LET call == st.activeCalls[callId]
           left == Remove(call.participants, userId)
           rooms1 == [st.rooms EXCEPT ![s] = @ \ {callId}]
           st1 == [st EXCEPT
                     !.activeCalls[callId].participants = left,
                     !.userCalls[userId] = NoCall,
                     !.rooms = rooms1,
                     !.out = @ \cup {[Msg("call_participant_left", RoomOf(rooms1, callId), callId)
                                       EXCEPT !.user = userId, !.reason = "client"]}]
       IN IF userId = call.hostId \/ Cardinality(DOMAIN left) < 1
          THEN endCall(st1, io, callId, "ended")
          ELSE st1

\* handleCallEnd that puts a call left with its host alone back to `ringing`
handleCallEndBackToRinging(st, io, s) ==
  LET userId == Owner(s)
      callId == st.userCalls[userId]
  IN IF callId = NoCall \/ callId \notin DOMAIN st.activeCalls THEN st
     ELSE
       LET call == st.activeCalls[callId]
           left == Remove(call.participants, userId)
           rooms1 == [st.rooms EXCEPT ![s] = @ \ {callId}]
           st1 == [st EXCEPT
                     !.activeCalls[callId].participants = left,
                     !.activeCalls[callId].status =
                        IF DOMAIN left = {call.hostId} THEN "ringing" ELSE @,
                     !.userCalls[userId] = NoCall,
                     !.rooms = rooms1,
                     !.out = @ \cup {[Msg("call_participant_left", RoomOf(rooms1, callId), callId)
                                       EXCEPT !.user = userId, !.reason = "client"]}]
       IN IF userId = call.hostId \/ Cardinality(DOMAIN left) < 1
          THEN endCall(st1, io, callId, IF userId = call.hostId THEN "host_left" ELSE "ended")
          ELSE st1

\* handleCallEnd(socket, data)
handleCallEnd(st, io, s) ==
  LET userId == Owner(s)
      callId == st.userCalls[userId]
  IN IF callId = NoCall \/ callId \notin DOMAIN st.activeCalls THEN st
     ELSE
       LET call == st.activeCalls[callId]
           left == Remove(call.participants, userId)
           rooms1 == [st.rooms EXCEPT ![s] = @ \ {callId}]
           st1 == [st EXCEPT
                     !.activeCalls[callId].participants = left,
                     !.userCalls[userId] = NoCall,
                     !.rooms = rooms1,
                     !.out = @ \cup {[Msg("call_participant_left", RoomOf(rooms1, callId), callId)
                                       EXCEPT !.user = userId, !.reason = "client"]}]
       IN IF userId = call.hostId \/ Cardinality(DOMAIN left) < 1
          THEN endCall(st1, io, callId, IF userId = call.hostId THEN "host_left" ELSE "ended")
          ELSE st1

\* handleDisconnection without `this.userCalls.delete(userId)`
handleDisconnectionKeepsIndex(st, io, s) ==
  LET userId == Owner(s)
      callId == st.userCalls[userId]
  IN IF callId = NoCall \/ callId \notin DOMAIN st.activeCalls THEN st
     ELSE IF getUserSockets(io, userId) \ {s} # {} THEN st
     ELSE
       LET call == st.activeCalls[callId]
           left == Remove(call.participants, userId)
           st1 == [st EXCEPT !.activeCalls[callId].participants = left]
       IN IF userId = call.hostId \/ Cardinality(DOMAIN left) < 1
          THEN endCall(st1, io, callId, "disconnected")
          ELSE st1

\* handleDisconnection without the `remainingSockets.length > 0` return
handleDisconnectionAnyDevice(st, io, s) ==
  LET userId == Owner(s)
      callId == st.userCalls[userId]
  IN IF callId = NoCall \/ callId \notin DOMAIN st.activeCalls THEN st
     ELSE
       LET call == st.activeCalls[callId]
           left == Remove(call.participants, userId)
           st1 == [st EXCEPT
                     !.activeCalls[callId].participants = left,
                     !.userCalls[userId] = NoCall,
                     !.out = @ \cup {[Msg("call_participant_left", RoomOf(st.rooms, callId), callId)
                                       EXCEPT !.user = userId, !.reason = "disconnected"]}]
       IN IF userId = call.hostId \/ Cardinality(DOMAIN left) < 1
          THEN endCall(st1, io, callId, "disconnected")
          ELSE st1

\* handleDisconnection(socket)
handleDisconnection(st, io, s) ==
  LET userId == Owner(s)
      callId == st.userCalls[userId]
  IN IF callId = NoCall \/ callId \notin DOMAIN st.activeCalls THEN st
     ELSE IF getUserSockets(io, userId) \ {s} # {} THEN st
     ELSE
       LET call == st.activeCalls[callId]
           left == Remove(call.participants, userId)
           st1 == [st EXCEPT
                     !.activeCalls[callId].participants = left,
                     !.userCalls[userId] = NoCall,
                     !.out = @ \cup {[Msg("call_participant_left", RoomOf(st.rooms, callId), callId)
                                       EXCEPT !.user = userId, !.reason = "disconnected"]}]
       IN IF userId = call.hostId \/ Cardinality(DOMAIN left) < 1
          THEN endCall(st1, io, callId, "disconnected")
          ELSE st1

\* the lookup of handleCallAccept and handleCallReject: by callId, else the first
\* session (in insertion order) of host callerId that has oderId pending
findCall(calls, callId, callerId, oderId) ==
  IF callId # NoCall /\ callId \in DOMAIN calls THEN callId
  ELSE LET m == {c \in DOMAIN calls :
                   calls[c].hostId = callerId /\ oderId \in calls[c].pendingInvites}
       IN IF m = {} THEN NoCall ELSE MinOf(m)

\* handleCallReject that ends the call as soon as nobody is pending
handleCallRejectNoPending(st, io, s, callerId, callId) ==
  LET oderId == Owner(s)
      found == findCall(st.activeCalls, callId, callerId, oderId)
  IN IF found = NoCall THEN st
     ELSE
       LET st1 == [st EXCEPT
                     !.activeCalls[found].pendingInvites = @ \ {oderId},
                     !.out = @ \cup {[Msg("call_participant_rejected", RoomOf(st.rooms, found), found)
                                       EXCEPT !.user = oderId]}]
       IN IF st1.activeCalls[found].pendingInvites = {}
          THEN endCall(st1, io, found, "rejected")
          ELSE st1

\* handleCallReject without the endCall of the last rejection
handleCallRejectKeeps(st, io, s, callerId, callId) ==
  LET oderId == Owner(s)
      found == findCall(st.activeCalls, callId, callerId, oderId)
  IN IF found = NoCall THEN st
     ELSE [st EXCEPT
             !.activeCalls[found].pendingInvites = @ \ {oderId},
             !.out = @ \cup {[Msg("call_participant_rejected", RoomOf(st.rooms, found), found)
                               EXCEPT !.user = oderId]}]

\* handleCallReject(socket, data)
handleCallReject(st, io, s, callerId, callId) ==
  LET oderId == Owner(s)
      found == findCall(st.activeCalls, callId, callerId, oderId)
  IN IF found = NoCall THEN st
     ELSE
       LET st1 == [st EXCEPT
                     !.activeCalls[found].pendingInvites = @ \ {oderId},
                     !.out = @ \cup {[Msg("call_participant_rejected", RoomOf(st.rooms, found), found)
                                       EXCEPT !.user = oderId]}]
           call == st1.activeCalls[found]
       IN IF Cardinality(DOMAIN call.participants) = 1 /\ call.pendingInvites = {}
          THEN endCall(st1, io, found, "rejected")
          ELSE st1

\* ---- CallHandler: call_request ----------------------------------------------
\* the classification loop of handleCallRequest.  targetUserIds is read only
\* through its members (the counts in the payloads are not modelled), so the
\* array is a set here: the targets that are in a call or have no socket ...
unavailableOf(st, io, targets) ==
  {t \in targets : isUserInCall(st, t) \/ getUserSockets(io, t) = {}}

\* availableOf without the isUserInCall test
availableOfReachable(st, io, targets) ==
  {[userId |-> t, sockets |-> getUserSockets(io, t)] :
     t \in {x \in targets : getUserSockets(io, x) # {}}}

\* ... and the others, each with the sockets found for it
availableOf(st, io, targets) ==
  {[userId |-> t, sockets |-> getUserSockets(io, t)] :
     t \in {x \in targets : ~isUserInCall(st, x) /\ getUserSockets(io, x) # {}}}

\* handleCallRequest without the `available.length === 0` return
handleCallRequestNoTargets(st, io, s, targets, offer) ==
  IF isUserInCall(st, Owner(s))
  THEN [st EXCEPT !.out = {Msg("call_error", {s}, NoCall)}]
  ELSE [st EXCEPT !.cont = <<[Cont("request", s, NoCall) EXCEPT
                                !.available = availableOf(st, io, targets),
                                !.unavailable = unavailableOf(st, io, targets),
                                !.offer = offer]>>]

\* handleCallRequest without the isUserInCall(callerId) return
handleCallRequestAgain(st, io, s, targets, offer) ==
  IF availableOf(st, io, targets) = {}
  THEN [st EXCEPT !.out = {Msg("call_error", {s}, NoCall)}]
  ELSE [st EXCEPT !.cont = <<[Cont("request", s, NoCall) EXCEPT
                                !.available = availableOf(st, io, targets),
                                !.unavailable = unavailableOf(st, io, targets),
                                !.offer = offer]>>]

\* handleCallRequest up to `await this.getUserName(callerId)`
handleCallRequest(st, io, s, targets, offer) ==
  IF isUserInCall(st, Owner(s))
  THEN [st EXCEPT !.out = {Msg("call_error", {s}, NoCall)}]
  ELSE IF availableOf(st, io, targets) = {}
  THEN [st EXCEPT !.out = {Msg("call_error", {s}, NoCall)}]
  ELSE [st EXCEPT !.cont = <<[Cont("request", s, NoCall) EXCEPT
                                !.available = availableOf(st, io, targets),
                                !.unavailable = unavailableOf(st, io, targets),
                                !.offer = offer]>>]

\* ---- CallHandler: the directory lookups --------------------------------------
\* db.execute on the users table: a row comes back, no row does, or the call
\* rejects (an error of the database, or the time limit of the query)
Lookups == {"found", "missing", "failed"}
Names == <<"Ana", "Luis", "Eva">>
Placeholder == "Usuario"

\* getUserName without its try/catch: a rejected db.execute rejects it
getUserNameUncaught(db, userId) ==
  [threw |-> db = "failed",
   name |-> IF db = "found" THEN Names[userId] ELSE Placeholder]

\* getUserName(userId): what the await yields, a name or a rejection
getUserName(db, userId) ==
  [threw |-> FALSE,
   name |-> IF db = "found" THEN Names[userId] ELSE Placeholder]

\* getUsersInfo(userIds): the rows, one per user id found
getUsersInfo(db, userIds) ==
  [threw |-> FALSE,
   rows |-> IF db = "found" THEN userIds ELSE {}]

\* the object literal of handleCallRequest
newCall(callerId, available, offer) ==
  [hostId |-> callerId,
   participants |-> [u \in {callerId} |-> "connected"],
   pendingInvites |-> {a.userId : a \in available},
   status |-> "ringing",
   offer |-> offer]

\* handleCallRequest from the return of getUserName to its end; the call id,
\* which nothing reads before this point, is drawn here
resumeCallRequest(st, io, k, callId) ==
  LET callerId == Owner(k.sock)
      incoming == {[Msg("call_incoming", a.sockets, callId)
                      EXCEPT !.user = a.userId, !.by = callerId, !.payload = k.offer,
                             !.name = k.name] :
                     a \in k.available}
      notice == IF k.unavailable # {}
                THEN {[Msg("call_users_unavailable", {k.sock}, callId)
                         EXCEPT !.users = k.unavailable]}
                ELSE {}
  IN [st EXCEPT
        !.activeCalls = Put(@, callId, newCall(callerId, k.available, k.offer)),
        !.userCalls[callerId] = callId,
        !.rooms[k.sock] = IF k.sock \in io THEN @ \cup {callId} ELSE @,
        !.out = @ \cup {Msg("call_created", {k.sock}, callId)} \cup incoming \cup notice]

\* ---- CallHandler: call_accept -----------------------------------------------
\* handleCallAccept without `call.status = 'active'`
handleCallAcceptKeepsStatus(st, io, s, callerId, callId) ==
  LET oderId == Owner(s)
      found == findCall(st.activeCalls, callId, callerId, oderId)
  IN IF found = NoCall
     THEN [st EXCEPT !.out = {Msg("call_error", {s}, NoCall)}]
     ELSE [st EXCEPT
             !.activeCalls[found].pendingInvites = @ \ {oderId},
             !.activeCalls[found].participants = Put(@, oderId, "connecting"),
             !.userCalls[oderId] = found,
             !.rooms[s] = @ \cup {found},
             !.cont = <<Cont("accept", s, found)>>]

\* handleCallAccept up to `await this.getUserName(oderId)`
handleCallAccept(st, io, s, callerId, callId) ==
  LET oderId == Owner(s)
      found == findCall(st.activeCalls, callId, callerId, oderId)
  IN IF found = NoCall
     THEN [st EXCEPT !.out = {Msg("call_error", {s}, NoCall)}]
     ELSE [st EXCEPT
             !.activeCalls[found].pendingInvites = @ \ {oderId},
             !.activeCalls[found].participants = Put(@, oderId, "connecting"),
             !.activeCalls[found].status = "active",
             !.userCalls[oderId] = found,
             !.rooms[s] = @ \cup {found},
             !.cont = <<Cont("accept", s, found)>>]

\* handleCallAccept from the return of getUserName to its end
resumeCallAccept(st, io, k) ==
  LET call == heldCall(st, k.callId)
      oderId == Owner(k.sock)
  IN [st EXCEPT
        !.out = @ \cup
          {[Msg("call_participant_joined", RoomOf(st.rooms, k.callId), k.callId)
              EXCEPT !.user = oderId, !.name = k.name],
           [Msg("call_offer", {k.sock}, k.callId)
              EXCEPT !.by = call.hostId, !.payload = call.offer,
                     !.users = DOMAIN call.participants]}]

\* handleCallAccept when its lookup returns before any other event
callAcceptThrough(st, io, s, callerId, callId) ==
  LET st1 == handleCallAccept(st, io, s, callerId, callId)
  IN IF st1.cont = << >> THEN st1
     ELSE [resumeCallAccept(st1, io, st1.cont[1]) EXCEPT !.cont = << >>]

\* ---- CallHandler: call_add_participant --------------------------------------
\* the refusals of handleAddParticipant, in the order the code tests them
addRefused(st, io, s, callId, targetUserId) ==
  \/ callId \notin DOMAIN st.activeCalls
  \/ Owner(s) \notin DOMAIN st.activeCalls[callId].participants
  \/ targetUserId \in DOMAIN st.activeCalls[callId].participants
  \/ targetUserId \in st.activeCalls[callId].pendingInvites
  \/ isUserInCall(st, targetUserId)
  \/ getUserSockets(io, targetUserId) = {}

\* handleAddParticipant without the `!call.participants.has(oderId)` return
handleAddParticipantByAnyone(st, io, s, callId, targetUserId) ==
  IF \/ callId \notin DOMAIN st.activeCalls
     \/ targetUserId \in DOMAIN st.activeCalls[callId].participants
     \/ targetUserId \in st.activeCalls[callId].pendingInvites
     \/ isUserInCall(st, targetUserId)
     \/ getUserSockets(io, targetUserId) = {}
  THEN [st EXCEPT !.out = {Msg("call_error", {s}, NoCall)}]
  ELSE [st EXCEPT
          !.activeCalls[callId].pendingInvites = @ \cup {targetUserId},
          !.cont = <<[Cont("invite", s, callId) EXCEPT
                        !.user = targetUserId,
                        !.sockets = getUserSockets(io, targetUserId)]>>]

\* handleAddParticipant with `call.pendingInvites.add(targetUserId)` moved
\* before the test of the target's sockets
handleAddParticipantEager(st, io, s, callId, targetUserId) ==
  IF \/ callId \notin DOMAIN st.activeCalls
     \/ Owner(s) \notin DOMAIN st.activeCalls[callId].participants
     \/ targetUserId \in DOMAIN st.activeCalls[callId].participants
     \/ targetUserId \in st.activeCalls[callId].pendingInvites
     \/ isUserInCall(st, targetUserId)
  THEN [st EXCEPT !.out = {Msg("call_error", {s}, NoCall)}]
  ELSE IF getUserSockets(io, targetUserId) = {}
  THEN [st EXCEPT !.activeCalls[callId].pendingInvites = @ \cup {targetUserId},
                  !.out = {Msg("call_error", {s}, NoCall)}]
  ELSE [st EXCEPT
          !.activeCalls[callId].pendingInvites = @ \cup {targetUserId},
          !.cont = <<[Cont("invite", s, callId) EXCEPT
                        !.user = targetUserId,
                        !.sockets = getUserSockets(io, targetUserId)]>>]

\* handleAddParticipant up to `await this.getUserName(oderId)`
handleAddParticipant(st, io, s, callId, targetUserId) ==
  IF addRefused(st, io, s, callId, targetUserId)
  THEN [st EXCEPT !.out = {Msg("call_error", {s}, NoCall)}]
  ELSE [st EXCEPT
          !.activeCalls[callId].pendingInvites = @ \cup {targetUserId},
          !.cont = <<[Cont("invite", s, callId) EXCEPT
                        !.user = targetUserId,
                        !.sockets = getUserSockets(io, targetUserId)]>>]

\* handleAddParticipant from the return of getUserName to
\* `await this.getUsersInfo(...)`: the keys of call.participants are read
namedAddParticipant(st, io, k) ==
  [st EXCEPT !.cont = <<[k EXCEPT !.kind = "invited",
                                  !.participants = DOMAIN heldCall(st, k.callId).participants]>>]

\* handleAddParticipant from the return of getUsersInfo to its end
resumeAddParticipant(st, io, k) ==
  LET call == heldCall(st, k.callId)
  IN [st EXCEPT
        !.cont = << >>,
        !.out = @ \cup
          {[Msg("call_incoming", k.sockets, k.callId)
              EXCEPT !.user = k.user, !.by = Owner(k.sock),
                     !.users = k.participants, !.payload = call.offer,
                     !.name = k.name],
           [Msg("call_participant_invited", RoomOf(st.rooms, k.callId), k.callId)
              EXCEPT !.user = k.user, !.by = Owner(k.sock), !.name = k.name]}]

\* handleAddParticipant when both lookups return before any other event
addParticipantThrough(st, io, s, callId, targetUserId) ==
  LET st1 == handleAddParticipant(st, io, s, callId, targetUserId)
  IN IF st1.cont = << >> THEN st1
     ELSE LET st2 == namedAddParticipant(st1, io, st1.cont[1])
          IN resumeAddParticipant(st2, io, st2.cont[1])

\* ---- CallHandler: a suspended handler goes on --------------------------------
\* `await this.getUserName(...)` returns to the handler k: with a name the
\* handler goes on; a rejection would leave the async function at the await
afterGetUserName(st, io, k, callId, db) ==
  LET looked == getUserName(db, Owner(k.sock))
      named == [k EXCEPT !.name = looked.name]
  IN IF looked.threw THEN [st EXCEPT !.cont = << >>]
     ELSE IF k.kind = "request" THEN resumeCallRequest(st, io, named, callId)
     ELSE IF k.kind = "accept" THEN resumeCallAccept(st, io, named)
     ELSE namedAddParticipant(st, io, named)

\* `await this.getUsersInfo(...)` returns to handleAddParticipant
afterGetUsersInfo(st, io, k, db) ==
  LET looked == getUsersInfo(db, k.participants)
  IN IF looked.threw THEN [st EXCEPT !.cont = << >>]
     ELSE resumeAddParticipant(st, io, [k EXCEPT !.participants = looked.rows])

\* ---- CallHandler: call_chat_message -------------------------------------------
\* handleCallChatMessage without the userCalls test
handleCallChatMessageOpen(st, io, s, callId) ==
  IF callId \notin DOMAIN st.activeCalls THEN st
  ELSE [st EXCEPT
          !.out = @ \cup {[Msg("call_chat_message", RoomOf(st.rooms, callId) \ {s}, callId)
                            EXCEPT !.user = Owner(s)]}]

\* handleCallChatMessage(socket, data); socket.to(room) is the room without
\* the socket itself
handleCallChatMessage(st, io, s, callId) ==
  LET userId == Owner(s)
      userCallId == st.userCalls[userId]
  IN IF userCallId = NoCall \/ userCallId # callId
     THEN [st EXCEPT !.out = {Msg("call_error", {s}, NoCall)}]
     ELSE IF callId \notin DOMAIN st.activeCalls THEN st
     ELSE [st EXCEPT
             !.out = @ \cup {[Msg("call_chat_message", RoomOf(st.rooms, callId) \ {s}, callId)
                               EXCEPT !.user = userId]}]

\* ---- CallHandler: the negotiation relays --------------------------------------
\* CallHandler.getUserCall(userId), as the id of the call (NoCall: null)
getUserCall(st, userId) ==
  LET callId == st.userCalls[userId]
  IN IF callId # NoCall /\ callId \in DOMAIN st.activeCalls THEN callId ELSE NoCall

\* the forEach over getUserSockets(targetUserId): one emit per socket
relay(io, ev, targetUserId, fromUserId, callId, payload) ==
  {[Msg(ev, {x}, callId) EXCEPT !.by = fromUserId, !.payload = payload] :
     x \in getUserSockets(io, targetUserId)}

\* handleCallOfferSend that addresses one socket of the target only
handleCallOfferSendOneDevice(st, io, s, targetUserId, offer, callId) ==
  LET targetSockets == getUserSockets(io, targetUserId)
  IN IF targetSockets = {} THEN st
     ELSE [st EXCEPT !.out = @ \cup {[Msg("call_offer", {MinOf(targetSockets)}, callId)
                                       EXCEPT !.by = Owner(s), !.payload = offer]}]

\* handleCallOfferSend(socket, data)
handleCallOfferSend(st, io, s, targetUserId, offer, callId) ==
  [st EXCEPT !.out = @ \cup relay(io, "call_offer", targetUserId, Owner(s), callId, offer)]

\* handleIceCandidate(socket, data)
handleIceCandidate(st, io, s, targetUserId, candidate, callId) ==
  [st EXCEPT !.out = @ \cup relay(io, "call_ice_candidate", targetUserId, Owner(s), callId,
                                  candidate)]

\* handleCallAnswerSend without the `call.participants.has(socket.userId)` test
handleCallAnswerSendAdds(st, io, s, targetUserId, answer, callId) ==
  LET userId == Owner(s)
      activeCallId == IF callId # NoCall THEN callId ELSE st.userCalls[userId]
      call == IF callId # NoCall
              THEN IF callId \in DOMAIN st.activeCalls THEN callId ELSE NoCall
              ELSE getUserCall(st, userId)
      st1 == [st EXCEPT !.out = @ \cup relay(io, "call_answer", targetUserId, userId,
                                             activeCallId, answer)]
  IN IF call # NoCall
     THEN [st1 EXCEPT !.activeCalls[call].participants = Put(@, userId, "connected")]
     ELSE st1

\* handleCallAnswerSend(socket, data)
handleCallAnswerSend(st, io, s, targetUserId, answer, callId) ==
  LET userId == Owner(s)
      activeCallId == IF callId # NoCall THEN callId ELSE st.userCalls[userId]
      call == IF callId # NoCall
              THEN IF callId \in DOMAIN st.activeCalls THEN callId ELSE NoCall
              ELSE getUserCall(st, userId)
      st1 == [st EXCEPT !.out = @ \cup relay(io, "call_answer", targetUserId, userId,
                                             activeCallId, answer)]
  IN IF call # NoCall /\ userId \in DOMAIN st.activeCalls[call].participants
     THEN [st1 EXCEPT !.activeCalls[call].participants[userId] = "connected"]
     ELSE st1

\* ---- CallHandler: call_get_info ----------------------------------------------
\* the call_info payload
Info(to, inCall, callId) ==
  [ev |-> "call_info", to |-> to, inCall |-> inCall, callId |-> callId, isHost |-> FALSE,
   hostId |-> NoUser, participants |-> << >>, pendingInvites |-> {}]

\* handleGetCallInfo without the pendingInvites of the session
handleGetCallInfoNoPending(st, io, s) ==
  LET oderId == Owner(s)
      call == getUserCall(st, oderId)
  IN IF call = NoCall
     THEN [st EXCEPT !.out = {Info({s}, FALSE, NoCall)}]
     ELSE [st EXCEPT !.out = {[Info({s}, TRUE, call) EXCEPT
                                 !.isHost = (st.activeCalls[call].hostId = oderId),
                                 !.hostId = st.activeCalls[call].hostId,
                                 !.participants = st.activeCalls[call].participants]}]

\* handleGetCallInfo(socket)
handleGetCallInfo(st, io, s) ==
  LET oderId == Owner(s)
      call == getUserCall(st, oderId)
  IN IF call = NoCall
     THEN [st EXCEPT !.out = {Info({s}, FALSE, NoCall)}]
     ELSE [st EXCEPT !.out = {[Info({s}, TRUE, call) EXCEPT
                                 !.isHost = (st.activeCalls[call].hostId = oderId),
                                 !.hostId = st.activeCalls[call].hostId,
                                 !.participants = st.activeCalls[call].participants,
                                 !.pendingInvites = st.activeCalls[call].pendingInvites]}]

\* ---- the steps of the server ------------------------------------------------
\* what one behaviour has used of its budget so far
Load ==
  Cardinality({s \in Socks : conn[s] # "off"}) + Cardinality(Lost(conn))
    + (nextCallId - 1) + Len(awaiting)
    + Cardinality({<<c, u>> \in (DOMAIN activeCalls) \X Users :
                     /\ u \in DOMAIN activeCalls[c].participants
                     /\ u # activeCalls[c].hostId
                     /\ activeCalls[c].participants[u] = "connected"})

\* the payloads in use: of the sessions and of the call_request handlers that
\* are suspended
UsedOffers ==
  {activeCalls[c].offer : c \in DOMAIN activeCalls}
    \cup {awaiting[i].offer : i \in {j \in 1..Len(awaiting) : awaiting[j].kind = "request"}}

\* call objects no suspended handler refers to any more are garbage
Collect(dt, aw) == [c \in DOMAIN dt \cap {aw[i].callId : i \in 1..Len(aw)} |-> dt[c]]

\* the writes of a handler, counted where the behaviour bounds them
Commit(st, aw) ==
  /\ activeCalls' = st.activeCalls
  /\ userCalls' = st.userCalls
  /\ rooms' = st.rooms
  /\ awaiting' = aw
  /\ detached' = Collect(st.detached, aw)
  /\ budget' = budget
  /\ LET written == \/ st.activeCalls # activeCalls \/ st.userCalls # userCalls
                     \/ st.rooms # rooms \/ aw # awaiting
     IN /\ written => writes # 0
        /\ writes' = IF written /\ writes # NoLimit THEN writes - 1 ELSE writes

\* socket.on('call_request'): handleCallRequest up to its await.  Payloads
\* carry no meaning, so a payload not yet in use is the smallest one
CallRequest(s, targets, offer) ==
  /\ conn[s] = "ready"
  /\ offer \in UsedOffers \/ \A o \in Offers \ UsedOffers : offer <= o
  /\ UNCHANGED <<conn, userSockets, nextCallId>>
  /\ LET st == handleCallRequest(Store, IoSockets(conn), s, targets, offer)
     IN /\ st.cont # << >> => Load < budget
        /\ Commit(st, awaiting \o st.cont)

\* the name lookup of a call_request returns
CallRequestResume(i, db) ==
  /\ i \in 1..Len(awaiting)
  /\ awaiting[i].kind = "request"
  /\ nextCallId' = nextCallId + 1
  /\ UNCHANGED <<conn, userSockets>>
  /\ Commit(afterGetUserName(Store, IoSockets(conn), awaiting[i], nextCallId, db),
            DropAt(awaiting, i))

\* socket.on('call_accept'): handleCallAccept up to its await, and through it
\* when the load leaves no room for one more suspended handler (the lookup
\* then returns before the next event).  callerId is read only when callId
\* finds no session, and a callId of no session reads like a missing one.
CallAccept(s, callerId, callId) ==
  /\ conn[s] = "ready"
  /\ callId # NoCall => callerId = NoUser
  /\ UNCHANGED <<conn, userSockets, nextCallId>>
  /\ LET io == IoSockets(conn)
         st == handleCallAccept(Store, io, s, callerId, callId)
     IN IF st.cont = << >> \/ Load < budget
        THEN Commit(st, awaiting \o st.cont)
        ELSE Commit(resumeCallAccept(st, io, st.cont[1]), awaiting)

\* the name lookup of a call_accept returns
CallAcceptResume(i, db) ==
  /\ i \in 1..Len(awaiting)
  /\ awaiting[i].kind = "accept"
  /\ UNCHANGED <<conn, userSockets, nextCallId>>
  /\ Commit(afterGetUserName(Store, IoSockets(conn), awaiting[i], awaiting[i].callId, db),
            DropAt(awaiting, i))

\* socket.on('call_add_participant'): as for call_accept
AddParticipant(s, callId, targetUserId) ==
  /\ conn[s] = "ready"
  /\ UNCHANGED <<conn, userSockets, nextCallId>>
  /\ LET io == IoSockets(conn)
         st == handleAddParticipant(Store, io, s, callId, targetUserId)
     IN IF st.cont = << >> \/ Load < budget
        THEN Commit(st, awaiting \o st.cont)
        ELSE Commit(addParticipantThrough(Store, io, s, callId, targetUserId), awaiting)

\* the name lookup of a call_add_participant returns
AddParticipantNamed(i, db) ==
  /\ i \in 1..Len(awaiting)
  /\ awaiting[i].kind = "invite"
  /\ UNCHANGED <<conn, userSockets, nextCallId>>
  /\ LET st == afterGetUserName(Store, IoSockets(conn), awaiting[i], awaiting[i].callId, db)
     IN Commit(st, IF st.cont = << >> THEN DropAt(awaiting, i)
                   ELSE [awaiting EXCEPT ![i] = st.cont[1]])

\* the names lookup of a call_add_participant returns
AddParticipantResume(i, db) ==
  /\ i \in 1..Len(awaiting)
  /\ awaiting[i].kind = "invited"
  /\ UNCHANGED <<conn, userSockets, nextCallId>>
  /\ Commit(afterGetUsersInfo(Store, IoSockets(conn), awaiting[i], db), DropAt(awaiting, i))

\* socket.on('call_reject')
CallReject(s, callerId, callId) ==
  /\ conn[s] = "ready"
  /\ callId # NoCall => callerId = NoUser
  /\ UNCHANGED <<conn, userSockets, nextCallId>>
  /\ Commit(handleCallReject(Store, IoSockets(conn), s, callerId, callId), awaiting)

\* socket.on('call_end')
CallEnd(s) ==
  /\ conn[s] = "ready"
  /\ UNCHANGED <<conn, userSockets, nextCallId>>
  /\ Commit(handleCallEnd(Store, IoSockets(conn), s), awaiting)

\* socket.on('call_chat_message')
CallChatMessage(s, callId) ==
  /\ conn[s] = "ready"
  /\ UNCHANGED <<conn, userSockets, nextCallId>>
  /\ Commit(handleCallChatMessage(Store, IoSockets(conn), s, callId), awaiting)

\* socket.on('call_answer_send'), socket.on('call_offer_send') and
\* socket.on('call_ice_candidate').  A relay writes nothing that depends on its
\* target or its payload, so the steps draw the sender and, for
\* call_answer_send, the call id
CallAnswerSend(s, targetUserId, answer, callId) ==
  /\ conn[s] = "ready"
  /\ UNCHANGED <<conn, userSockets, nextCallId>>
  /\ LET st == handleCallAnswerSend(Store, IoSockets(conn), s, targetUserId, answer, callId)
     IN /\ st.activeCalls # activeCalls => Load < budget
        /\ Commit(st, awaiting)

\* socket.on('call_offer_send')
CallOfferSend(s, targetUserId, offer, callId) ==
  /\ conn[s] = "ready"
  /\ UNCHANGED <<conn, userSockets, nextCallId>>
  /\ Commit(handleCallOfferSend(Store, IoSockets(conn), s, targetUserId, offer, callId),
            awaiting)

\* socket.on('call_ice_candidate')
IceCandidate(s, targetUserId, candidate, callId) ==
  /\ conn[s] = "ready"
  /\ UNCHANGED <<conn, userSockets, nextCallId>>
  /\ Commit(handleIceCandidate(Store, IoSockets(conn), s, targetUserId, candidate, callId),
            awaiting)

\* socket.on('call_get_info')
GetCallInfo(s) ==
  /\ conn[s] = "ready"
  /\ UNCHANGED <<conn, userSockets, nextCallId>>
  /\ Commit(handleGetCallInfo(Store, IoSockets(conn), s), awaiting)

\* ChatHandler.handleConnection up to its first await: the socket id joins the
\* set of its user
chatHandleConnection(us, s) == us \cup {s}

\* ChatHandler.handleDisconnection that drops the whole set of the user
chatHandleDisconnectionAllDevices(us, s) == {x \in us : Owner(x) # Owner(s)}

\* ChatHandler.handleDisconnection up to its await: the socket id leaves the set
\* of its user
chatHandleDisconnection(us, s) == us \ {s}

\* ChatHandler.isUserOnline(userId)
isUserOnline(us, userId) == Cardinality({x \in us : Owner(x) = userId}) > 0

\* io.on('connection') up to the first await of chatHandler.handleConnection:
\* the socket is in io.sockets.sockets and in userSockets, no listener is
\* attached yet.  Socket ids and user names carry no meaning, so the second
\* socket of a user is the one that connects second, user 3 is the one of
\* users 2 and 3 that connects later, and user 1 is the first to connect a
\* second device.
Connect(s) ==
  /\ conn[s] = "off"
  /\ Load < budget
  /\ s = 4 => conn[1] # "off"
  /\ s = 3 => conn[2] # "off"
  /\ s = 5 => conn[2] # "off" /\ conn[4] # "off"
  /\ conn' = [conn EXCEPT ![s] = "connecting"]
  /\ userSockets' = chatHandleConnection(userSockets, s)
  /\ UNCHANGED nextCallId
  /\ Commit(Store, awaiting)

\* handleConnection has returned: the listeners of server.js are attached
ConnectionReady(s) ==
  /\ conn[s] = "connecting"
  /\ conn' = [conn EXCEPT ![s] = "ready"]
  /\ UNCHANGED <<userSockets, nextCallId>>
  /\ Commit(Store, awaiting)

\* chatHandler.handleDisconnection up to its await: TRUE iff the user's set
\* became empty, so that it goes on to `await this.setUserOffline(userId)`
chatWentOffline(us, s) == {x \in us \ {s} : Owner(x) = Owner(s)} = {}

\* the transport loses the socket.  Before its listeners are attached nothing
\* handles the loss; after, the 'disconnect' listener of server.js runs up to
\* the database call of setUserOffline, or to its end when there is none
TransportClose(s) ==
  /\ conn[s] \in {"connecting", "ready"}
  /\ Load < budget
  /\ UNCHANGED nextCallId
  /\ IF conn[s] = "connecting"
     THEN /\ conn' = [conn EXCEPT ![s] = "closed"]
          /\ UNCHANGED userSockets
          /\ Commit(Store, awaiting)
     ELSE LET io == IoSockets(conn) \ {s}
              st == [Store EXCEPT !.rooms[s] = {}]
          IN /\ userSockets' = chatHandleDisconnection(userSockets, s)
             /\ IF chatWentOffline(userSockets, s)
                THEN /\ conn' = [conn EXCEPT ![s] = "closing"]
                     /\ Commit(st, awaiting)
                ELSE /\ conn' = [conn EXCEPT ![s] = "closed"]
                     /\ Commit(handleDisconnection(st, io, s), awaiting)

\* the 'disconnect' listener after `await chatHandler.handleDisconnection(socket)`
DisconnectResume(s) ==
  /\ conn[s] = "closing"
  /\ conn' = [conn EXCEPT ![s] = "closed"]
  /\ UNCHANGED <<userSockets, nextCallId>>
  /\ Commit(handleDisconnection(Store, IoSockets(conn), s), awaiting)

Init ==
  /\ conn = [s \in Socks |-> "off"]
  /\ userSockets = {}
  /\ rooms = [s \in Socks |-> {}]
  /\ activeCalls = << >>
  /\ detached = << >>
  /\ userCalls = [u \in Users |-> NoCall]
  /\ nextCallId = 1
  /\ awaiting = << >>
  /\ budget = MaxLoad
  /\ writes = NoLimit

\* the server after users 1, 2 and 3 have connected on sockets 1, 2 and 3, user 2
\* has sent call_request naming users 1 and 3, both have sent call_accept, and
\* user 1 has connected a second device: call 1 is active with three
\* participants
InitParty ==
  /\ conn = [s \in Socks |-> IF s \in 1..4 THEN "ready" ELSE "off"]
  /\ userSockets = 1..4
  /\ rooms = [s \in Socks |-> IF s \in 1..3 THEN {1} ELSE {}]
  /\ activeCalls = <<[hostId |-> 2,
                      participants |-> [u \in Users |-> IF u = 2 THEN "connected"
                                                                  ELSE "connecting"],
                      pendingInvites |-> {},
                      status |-> "active",
                      offer |-> 1]>>
  /\ detached = << >>
  /\ userCalls = [u \in Users |-> 1]
  /\ nextCallId = 2
  /\ awaiting = << >>
  /\ budget = 5 + PartyLoad
  /\ writes = PartyWrites

Next ==
  \/ \E s \in Socks : Connect(s)
  \/ \E s \in Socks : ConnectionReady(s)
  \/ \E s \in Socks : TransportClose(s)
  \/ \E s \in Socks : DisconnectResume(s)
  \/ \E s \in Socks, targets \in SUBSET Users, offer \in Offers : CallRequest(s, targets, offer)
  \/ \E i \in 1..Len(awaiting), db \in Lookups : CallRequestResume(i, db)
  \/ \E s \in Socks, callerId \in Users \cup {NoUser}, callId \in DOMAIN activeCalls \cup {NoCall} :
       CallAccept(s, callerId, callId)
  \/ \E i \in 1..Len(awaiting), db \in Lookups : CallAcceptResume(i, db)
  \/ \E s \in Socks, callId \in DOMAIN activeCalls \cup {NoCall}, targetUserId \in Users :
       AddParticipant(s, callId, targetUserId)
  \/ \E i \in 1..Len(awaiting), db \in Lookups : AddParticipantNamed(i, db)
  \/ \E i \in 1..Len(awaiting), db \in Lookups : AddParticipantResume(i, db)
  \/ \E s \in Socks, callerId \in Users \cup {NoUser}, callId \in DOMAIN activeCalls \cup {NoCall} :
       CallReject(s, callerId, callId)
  \/ \E s \in Socks : CallEnd(s)
  \/ \E s \in Socks, callId \in DOMAIN activeCalls \cup {NoCall} : CallChatMessage(s, callId)
  \/ \E s \in Socks, callId \in 1..(nextCallId - 1) \cup {NoCall} :
       CallAnswerSend(s, NoUser, NoOffer, callId)
  \/ \E s \in Socks, targetUserId \in Users : CallOfferSend(s, targetUserId, NoOffer, NoCall)
  \/ \E s \in Socks, targetUserId \in Users : IceCandidate(s, targetUserId, NoOffer, NoCall)
  \/ \E s \in Socks : GetCallInfo(s)

Spec == Init /\ [][Next]_vars

SpecParty == InitParty /\ [][Next]_vars

\* The database module bounds every query by a time limit: the lookup that a
\* call_request waits for settles, with one of the outcomes of Lookups
DirectoryBounded == WF_vars(\E i \in 1..Len(awaiting), db \in Lookups : CallRequestResume(i, db))

\* the behaviours of Spec in which the directory answers or times out
SpecLive == Spec /\ DirectoryBounded

\* ---- what the claims read ------------------------------------------------------
Ready == {s \in Socks : conn[s] = "ready"}
Live == IoSockets(conn)
Members(c) == DOMAIN activeCalls[c].participants
\* the sessions that were registered and are no longer: endCall has run for them
Ended == {c \in 1..(nextCallId - 1) : c \notin DOMAIN activeCalls}
SessionsOf(u) == {c \in DOMAIN activeCalls : u \in Members(c)}

\* C1: no user is a key of `participants` of more than one session of activeCalls
C1_SingleActiveCall ==
  \A u \in Users : Cardinality(SessionsOf(u)) <= 1

\* C2: index soundness: every entry userCalls[u] = c names a session c of
\* activeCalls that has u among the keys of its participants
C2_IndexSound ==
  \A u \in Users :
    userCalls[u] # NoCall =>
      /\ userCalls[u] \in DOMAIN activeCalls
      /\ u \in Members(userCalls[u])

\* C2 witness: a session has ended and the index still holds an entry (for a
\* session that lives on)
C2_Witness ==
  /\ Ended # {}
  /\ \E u \in Users : userCalls[u] # NoCall

\* C3: index completeness: every key u of the participants of a session c of
\* activeCalls has userCalls[u] = c
C3_IndexComplete ==
  \A c \in DOMAIN activeCalls : \A u \in Members(c) : userCalls[u] = c

\* C4: disjointness: in no session of activeCalls is a user both a key of
\* participants and a member of pendingInvites
C4_Disjoint ==
  \A c \in DOMAIN activeCalls : Members(c) \cap activeCalls[c].pendingInvites = {}

\* C5: host membership: the hostId of every session of activeCalls is a key of
\* its participants
C5_HostMember ==
  \A c \in DOMAIN activeCalls : activeCalls[c].hostId \in Members(c)

\* C5 witness: a session that somebody joined and left again, and that still
\* holds its host, next to a session that ended
C5_Witness ==
  /\ Ended # {}
  /\ \E c \in DOMAIN activeCalls :
       /\ activeCalls[c].status = "active"
       /\ Members(c) = {activeCalls[c].hostId}

\* C6: termination completeness: once endCall(c) has run, c is not in
\* activeCalls and no userCalls entry has the value c; and endCall run on any
\* session of activeCalls leaves exactly that
C6_TerminationComplete ==
  /\ \A c \in Ended : \A u \in Users : userCalls[u] # c
  /\ \A c \in DOMAIN activeCalls :
       LET r == endCall(Store, Live, c, "ended")
       IN /\ c \notin DOMAIN r.activeCalls
          /\ \A u \in Users : r.userCalls[u] # c

\* C6 witness: a session that a second user had joined has been ended, and the
\* joiner's index entry went with it (the session's object is still held by
\* the join that awaits its lookup)
C6_Witness ==
  \E c \in Ended \cap DOMAIN detached :
    \E u \in DOMAIN detached[c].participants :
      u # detached[c].hostId /\ userCalls[u] = NoCall

\* the targets of a call_request that are not in userCalls and have a live socket
Eligible(targets) ==
  {t \in targets : userCalls[t] = NoCall /\ \E x \in Live : Owner(x) = t}

\* the emit calls of event ev among msgs
Emitted(msgs, ev) == {m \in msgs : m.ev = ev}

\* C7: partial-success invite.  A call_request of a user not in userCalls whose
\* targets T have a non-empty eligible subset A emits no error and goes on with
\* A and T \ A; when its lookup returns exactly one session is registered, with
\* pendingInvites = A, participants = {caller} and status ringing, and the
\* requesting socket gets call_users_unavailable listing exactly T \ A, or no
\* such notice when T \ A is empty
C7_PartialSuccess ==
  /\ \A s \in Ready : \A targets \in SUBSET Users : \A offer \in Offers :
       (userCalls[Owner(s)] = NoCall /\ Eligible(targets) # {}) =>
         LET r == handleCallRequest(Store, Live, s, targets, offer)
         IN /\ r.out = {}
            /\ Len(r.cont) = 1
            /\ r.cont[1].kind = "request" /\ r.cont[1].sock = s
            /\ {a.userId : a \in r.cont[1].available} = Eligible(targets)
            /\ r.cont[1].unavailable = targets \ Eligible(targets)
            /\ r.activeCalls = activeCalls /\ r.userCalls = userCalls
  /\ \A i \in 1..Len(awaiting) :
       awaiting[i].kind = "request" =>
         LET k == awaiting[i]
             r == resumeCallRequest(Store, Live, k, nextCallId)
             new == DOMAIN r.activeCalls \ DOMAIN activeCalls
             notices == Emitted(r.out, "call_users_unavailable")
         IN /\ Cardinality(new) = 1
            /\ \A c \in DOMAIN activeCalls :
                 c \in DOMAIN r.activeCalls /\ r.activeCalls[c] = activeCalls[c]
            /\ \A c \in new :
                 /\ r.activeCalls[c].pendingInvites = {a.userId : a \in k.available}
                 /\ DOMAIN r.activeCalls[c].participants = {Owner(k.sock)}
                 /\ r.activeCalls[c].hostId = Owner(k.sock)
                 /\ r.activeCalls[c].status = "ringing"
            /\ IF k.unavailable = {}
               THEN notices = {}
               ELSE /\ Cardinality(notices) = 1
                    /\ \A m \in notices : m.to = {k.sock} /\ m.users = k.unavailable

\* C7 witness: a request that named an eligible and an ineligible target has
\* passed its checks and its session is about to be registered
C7_Witness ==
  \E i \in 1..Len(awaiting) :
    /\ awaiting[i].kind = "request"
    /\ awaiting[i].available # {}
    /\ awaiting[i].unavailable # {}

\* what a refused event leaves: call_error to the requesting socket alone,
\* nothing suspended, activeCalls and userCalls as they were
Refused(r, s) ==
  /\ r.out = {Msg("call_error", {s}, NoCall)}
  /\ r.cont = << >>
  /\ r.activeCalls = activeCalls
  /\ r.userCalls = userCalls

\* C8: NoEligibleTargets: a call_request all of whose targets are in userCalls
\* or have no live socket is refused
C8_NoEligibleTargets ==
  \A s \in Ready : \A targets \in SUBSET Users : \A offer \in Offers :
    Eligible(targets) = {} => Refused(handleCallRequest(Store, Live, s, targets, offer), s)

\* C8 witness: a user who is in no call can send a call_request that names only
\* a user who is in a call
C8_Witness ==
  \E s \in Ready : \E t \in Users :
    /\ userCalls[Owner(s)] = NoCall
    /\ userCalls[t] # NoCall
    /\ Eligible({t}) = {}
    /\ Refused(handleCallRequest(Store, Live, s, {t}, 1), s)

\* C9: AlreadyInCall: a call_request of a user who has an entry in userCalls is
\* refused
C9_AlreadyInCall ==
  \A s \in Ready : \A targets \in SUBSET Users : \A offer \in Offers :
    userCalls[Owner(s)] # NoCall =>
      Refused(handleCallRequest(Store, Live, s, targets, offer), s)

\* C9 witness: a user who joined somebody else's call can send a call_request
\* that names an eligible target
C9_Witness ==
  \E s \in Ready : \E t \in Users :
    /\ userCalls[Owner(s)] \in DOMAIN activeCalls
    /\ activeCalls[userCalls[Owner(s)]].hostId # Owner(s)
    /\ Eligible({t}) # {}
    /\ Refused(handleCallRequest(Store, Live, s, {t}, 1), s)

\* the inputs of a call_reject that find a session in which the sender is pending
RejectsPending(s, callerId, callId) ==
  LET found == findCall(activeCalls, callId, callerId, Owner(s))
  IN found # NoCall /\ Owner(s) \in activeCalls[found].pendingInvites

\* the session is down to its host once this invitee is gone
Collapses(c, u) ==
  /\ Cardinality(Members(c)) = 1
  /\ activeCalls[c].pendingInvites \ {u} = {}

\* C10: reject rule.  A call_reject of a pending invitee ends the session with
\* reason `rejected` iff participants has one member (the host) and nobody else
\* is pending; otherwise the session stays, without the invitee, its status and
\* participants unchanged
C10_RejectRule ==
  \A s \in Ready : \A callerId \in Users \cup {NoUser} :
    \A callId \in DOMAIN activeCalls \cup {NoCall} :
      RejectsPending(s, callerId, callId) =>
        LET c == findCall(activeCalls, callId, callerId, Owner(s))
            r == handleCallReject(Store, Live, s, callerId, callId)
            ended == {m \in Emitted(r.out, "call_ended") : m.callId = c}
        IN IF Collapses(c, Owner(s))
           THEN /\ c \notin DOMAIN r.activeCalls
                /\ Members(c) = {activeCalls[c].hostId}
                /\ ended # {}
                /\ \A m \in ended : m.reason = "rejected"
           ELSE /\ c \in DOMAIN r.activeCalls
                /\ r.activeCalls[c].pendingInvites = activeCalls[c].pendingInvites \ {Owner(s)}
                /\ r.activeCalls[c].status = activeCalls[c].status
                /\ r.activeCalls[c].participants = activeCalls[c].participants
                /\ ended = {}

\* C10 witness: the lone invitee of a two-party ringing call can reject, and the
\* call ends by it
C10_Witness ==
  \E s \in Ready : \E c \in DOMAIN activeCalls :
    /\ activeCalls[c].status = "ringing"
    /\ activeCalls[c].pendingInvites = {Owner(s)}
    /\ Owner(s) # activeCalls[c].hostId
    /\ c \notin DOMAIN handleCallReject(Store, Live, s, NoUser, c).activeCalls

\* the emit calls of event ev about call c that reach a live socket of user u
Delivered(msgs, ev, c, u) ==
  {m \in msgs : m.ev = ev /\ m.callId = c /\ m.to \cap getUserSockets(Live, u) # {}}

\* C11: host departure.  In an active call of the host and two other confirmed
\* participants, a call_end from the host removes the session and every
\* remaining participant who has a live connection gets call_ended with reason
\* host_left on at least one of them
C11_HostDeparture ==
  \A c \in DOMAIN activeCalls : \A s \in Ready :
    ( /\ activeCalls[c].status = "active"
      /\ Owner(s) = activeCalls[c].hostId
      /\ userCalls[Owner(s)] = c
      /\ Cardinality(Members(c)) = 3 ) =>
        LET r == handleCallEnd(Store, Live, s)
        IN /\ c \notin DOMAIN r.activeCalls
           /\ \A u \in Members(c) \ {Owner(s)} :
                getUserSockets(Live, u) # {} =>
                  \E m \in Delivered(r.out, "call_ended", c, u) : m.reason = "host_left"

\* the sockets whose 'disconnect' listener may run callHandler.handleDisconnection
\* next: at once when the socket closes, or when the listener's await returns
Disconnecting == {s \in Socks : conn[s] \in {"ready", "closing"}}

\* the socket map and the state that handleDisconnection of socket s finds
MapWithout(s) == Live \ {s}
StoreWithout(s) == IF conn[s] = "ready" THEN [Store EXCEPT !.rooms[s] = {}] ELSE Store

\* C12: multi-device retention.  When handleDisconnection runs for a socket of
\* a user who is in a call and has another live connection, the user stays in
\* participants and userCalls, activeCalls is unchanged and nothing is emitted
C12_MultiDeviceRetention ==
  \A s \in Disconnecting :
    ( /\ userCalls[Owner(s)] # NoCall
      /\ \E x \in MapWithout(s) : Owner(x) = Owner(s) ) =>
        LET r == handleDisconnection(StoreWithout(s), MapWithout(s), s)
        IN /\ r.activeCalls = activeCalls
           /\ r.userCalls = userCalls
           /\ Owner(s) \in DOMAIN r.activeCalls[userCalls[Owner(s)]].participants
           /\ r.out = {}

\* C12 witness: the socket on which a user entered a call can be lost while a
\* second device of the user is connected
C12_Witness ==
  \E s \in Ready : \E x \in Ready \ {s} :
    /\ Owner(x) = Owner(s)
    /\ userCalls[Owner(s)] \in DOMAIN activeCalls
    /\ userCalls[Owner(s)] \in rooms[s]
    /\ handleDisconnection(StoreWithout(s), MapWithout(s), s).userCalls = userCalls

\* user u has no live connection and no 'disconnect' listener still to run, in
\* the socket states cn
Gone(cn, u) == \A x \in Socks : Owner(x) = u => cn[x] \in {"off", "closed"}

\* the handling of a lost connection of user u ends in this step, and it was
\* the last live connection of u
LastConnectionLost(u) ==
  /\ ~Gone(conn, u)
  /\ Gone(conn', u)
  /\ \E s \in Socks : Owner(s) = u /\ conn[s] # "closed" /\ conn'[s] = "closed"

\* C13: disconnect termination.  When the last live connection of a user is
\* lost, every session the user hosts, or is the last confirmed participant of,
\* is gone from activeCalls once the loss has been handled, and ended with
\* reason `disconnected`; a session in which the user is a non-host participant
\* beside others stays, without the user in participants and in userCalls
C13_DisconnectTermination ==
  /\ [][\A u \in Users : \A c \in DOMAIN activeCalls :
          (LastConnectionLost(u) /\ u \in Members(c)) =>
             IF activeCalls[c].hostId = u \/ Members(c) = {u}
             THEN c \notin DOMAIN activeCalls'
             ELSE /\ c \in DOMAIN activeCalls'
                  /\ u \notin DOMAIN activeCalls'[c].participants
                  /\ userCalls'[u] = NoCall]_vars
  /\ [](\A s \in Disconnecting : \A c \in DOMAIN activeCalls :
          ( /\ Owner(s) \in Members(c)
            /\ getUserSockets(MapWithout(s), Owner(s)) = {}
            /\ (activeCalls[c].hostId = Owner(s) \/ Members(c) = {Owner(s)}) ) =>
              \E m \in handleDisconnection(StoreWithout(s), MapWithout(s), s).out :
                m.ev = "call_ended" /\ m.callId = c /\ m.reason = "disconnected")

\* the call_add_participant events that pass the guards of the handler
Invitable(s, c, target) ==
  /\ Owner(s) \in Members(c)
  /\ target \notin Members(c) \cup activeCalls[c].pendingInvites
  /\ userCalls[target] = NoCall
  /\ getUserSockets(Live, target) # {}

\* C14: mid-call invite visibility.  When a call_add_participant of a confirmed
\* participant succeeds (its lookups returning at once), every live connection
\* of the target gets call_incoming with the session's offer and the list of
\* the confirmed participants, and every confirmed participant who has a live
\* connection gets call_participant_invited naming the inviter and the target
C14_InviteVisibility ==
  \A s \in Ready : \A c \in DOMAIN activeCalls : \A target \in Users :
    Invitable(s, c, target) =>
      LET r == addParticipantThrough(Store, Live, s, c, target)
      IN /\ \A x \in getUserSockets(Live, target) :
              \E m \in r.out : /\ m.ev = "call_incoming" /\ m.callId = c
                               /\ x \in m.to
                               /\ m.users = Members(c)
                               /\ m.payload = activeCalls[c].offer
         /\ \A u \in Members(c) :
              getUserSockets(Live, u) # {} =>
                \E m \in Delivered(r.out, "call_participant_invited", c, u) :
                  m.by = Owner(s) /\ m.user = target

\* every call id handed out so far, and the id of no call
CallIds == 1..(nextCallId - 1) \cup {NoCall}

\* C15: invite guard.  call_add_participant adds the target to pendingInvites,
\* and changes nothing else, if the session exists, the requester is a key of
\* its participants, the target is neither participant nor pending there, has
\* no userCalls entry and has a live connection; in every other case the
\* requester gets call_error and activeCalls and userCalls are unchanged
C15_InviteGuard ==
  \A s \in Ready : \A callId \in CallIds : \A target \in Users :
    LET r == handleAddParticipant(Store, Live, s, callId, target)
    IN IF callId \in DOMAIN activeCalls /\ Invitable(s, callId, target)
       THEN /\ r.activeCalls =
                 [activeCalls EXCEPT ![callId].pendingInvites = @ \cup {target}]
            /\ r.userCalls = userCalls
            /\ Emitted(r.out, "call_error") = {}
       ELSE Refused(r, s)

\* C15 witness: a pending invitee of a call asks to add a user who is free and
\* connected, and is refused
C15_Witness ==
  \E s \in Ready : \E c \in DOMAIN activeCalls : \E target \in Users :
    /\ Owner(s) \in activeCalls[c].pendingInvites \ Members(c)
    /\ target \notin Members(c) \cup activeCalls[c].pendingInvites
    /\ userCalls[target] = NoCall
    /\ getUserSockets(Live, target) # {}
    /\ Refused(handleAddParticipant(Store, Live, s, c, target), s)

\* the session a call_accept or call_reject of socket s with these fields is
\* about, when the sender is a pending invitee of it (else NoCall)
InvitedTo(s, callerId, callId) ==
  LET c == findCall(activeCalls, callId, callerId, Owner(s))
  IN IF c # NoCall /\ Owner(s) \in activeCalls[c].pendingInvites THEN c ELSE NoCall

\* C16: accept effect.  A call_accept of a pending invitee of session c, before
\* the handler first awaits, takes the user out of c.pendingInvites, puts the
\* user in c.participants with status connecting, sets userCalls[user] = c and
\* c.status = active; no other session, no other participant entry and no other
\* index entry changes
C16_AcceptEffect ==
  \A s \in Ready : \A callerId \in Users \cup {NoUser} : \A callId \in CallIds :
    LET c == InvitedTo(s, callerId, callId)
        r == handleCallAccept(Store, Live, s, callerId, callId)
    IN c # NoCall =>
         /\ DOMAIN r.activeCalls = DOMAIN activeCalls
         /\ \A d \in DOMAIN activeCalls \ {c} : r.activeCalls[d] = activeCalls[d]
         /\ r.activeCalls[c].pendingInvites = activeCalls[c].pendingInvites \ {Owner(s)}
         /\ DOMAIN r.activeCalls[c].participants = Members(c) \cup {Owner(s)}
         /\ r.activeCalls[c].participants[Owner(s)] = "connecting"
         /\ \A u \in Members(c) \ {Owner(s)} :
              r.activeCalls[c].participants[u] = activeCalls[c].participants[u]
         /\ r.activeCalls[c].status = "active"
         /\ r.activeCalls[c].hostId = activeCalls[c].hostId
         /\ r.userCalls = [userCalls EXCEPT ![Owner(s)] = c]

\* C16 witness: an invitee of a ringing call accepts it
C16_Witness ==
  \E s \in Ready : \E c \in DOMAIN activeCalls :
    /\ activeCalls[c].status = "ringing"
    /\ Owner(s) \in activeCalls[c].pendingInvites \ Members(c)
    /\ InvitedTo(s, NoUser, c) = c
    /\ handleCallAccept(Store, Live, s, NoUser, c).activeCalls[c].status = "active"

\* C17: accept requires an invite.  A call_accept that names a registered
\* callId, from a user who is not in that session's pendingInvites, gets
\* call_error and changes neither activeCalls (participants, status) nor
\* userCalls
C17_AcceptRequiresInvite ==
  \A s \in Ready : \A c \in DOMAIN activeCalls :
    Owner(s) \notin activeCalls[c].pendingInvites =>
      Refused(handleCallAccept(Store, Live, s, NoUser, c), s)

\* the reasons of the call_ended emits about call c among msgs
EndReasons(msgs, c) == {m.reason : m \in {x \in Emitted(msgs, "call_ended") : x.callId = c}}

\* C18: leave rule.  A call_end of a user u with userCalls[u] = c removes u from
\* c.participants and deletes userCalls[u]; if u is the host of c the session
\* ends with reason host_left, otherwise if nobody remains it ends with reason
\* ended, otherwise c stays with pendingInvites and status unchanged.  A
\* call_end of a user without userCalls entry changes nothing
C18_LeaveRule ==
  \A s \in Ready :
    LET u == Owner(s)
        c == userCalls[u]
        r == handleCallEnd(Store, Live, s)
    IN IF c = NoCall
       THEN /\ r.activeCalls = activeCalls /\ r.userCalls = userCalls
            /\ r.rooms = rooms /\ r.out = {}
       ELSE /\ c \in DOMAIN activeCalls
            /\ r.userCalls[u] = NoCall
            /\ IF activeCalls[c].hostId = u \/ Members(c) \ {u} = {}
               THEN /\ c \notin DOMAIN r.activeCalls
                    /\ u \notin DOMAIN r.detached[c].participants
                    /\ EndReasons(r.out, c) =
                         {IF activeCalls[c].hostId = u THEN "host_left" ELSE "ended"}
               ELSE /\ c \in DOMAIN r.activeCalls
                    /\ r.activeCalls[c].participants = Remove(activeCalls[c].participants, u)
                    /\ r.activeCalls[c].pendingInvites = activeCalls[c].pendingInvites
                    /\ r.activeCalls[c].status = activeCalls[c].status
                    /\ EndReasons(r.out, c) = {}
                    /\ \A v \in Users \ {u} : r.userCalls[v] = userCalls[v]

\* C18 witness: a joined participant who is not the host can leave a call in
\* which the host remains, and the host can leave a call others have joined
C18_Witness ==
  \E s, h \in Ready :
    /\ userCalls[Owner(s)] \in DOMAIN activeCalls
    /\ userCalls[Owner(h)] = userCalls[Owner(s)]
    /\ activeCalls[userCalls[Owner(s)]].hostId = Owner(h)
    /\ Owner(s) # Owner(h)
    /\ userCalls[Owner(s)] \in DOMAIN handleCallEnd(Store, Live, s).activeCalls
    /\ userCalls[Owner(s)] \notin DOMAIN handleCallEnd(Store, Live, h).activeCalls

\* C19: in-call chat requires membership.  A call_chat_message for call c is
\* broadcast only if the sender is a key of c.participants; a sender who is not
\* gets call_error and nobody gets call_chat_message; the state is unchanged
C19_ChatRequiresMembership ==
  \A s \in Ready : \A callId \in CallIds :
    LET r == handleCallChatMessage(Store, Live, s, callId)
        member == callId \in DOMAIN activeCalls /\ Owner(s) \in Members(callId)
    IN /\ Emitted(r.out, "call_chat_message") # {} => member
       /\ ~member => Refused(r, s)
       /\ r.activeCalls = activeCalls /\ r.userCalls = userCalls /\ r.rooms = rooms

\* C19 witness: a user who is in one call sends a chat message to another
\* registered call and is refused, and a participant's message is broadcast
C19_Witness ==
  \E s, x \in Ready : \E c \in DOMAIN activeCalls :
    /\ userCalls[Owner(s)] \in DOMAIN activeCalls \ {c}
    /\ Owner(s) \notin Members(c)
    /\ Refused(handleCallChatMessage(Store, Live, s, c), s)
    /\ Emitted(handleCallChatMessage(Store, Live, x, c).out, "call_chat_message") # {}

\* C20: in-call chat is never echoed to the sender.  For a call_chat_message
\* accepted from user u, no live connection of u is among the receivers of the
\* resulting call_chat_message, and every other confirmed participant who has
\* a live connection is
C20_NoEcho ==
  \A s \in Ready : \A c \in DOMAIN activeCalls :
    LET r == handleCallChatMessage(Store, Live, s, c)
    IN userCalls[Owner(s)] = c =>
         /\ \A m \in Emitted(r.out, "call_chat_message") :
              m.to \cap getUserSockets(Live, Owner(s)) = {}
         /\ \A v \in Members(c) \ {Owner(s)} :
              getUserSockets(Live, v) # {} =>
                Delivered(r.out, "call_chat_message", c, v) # {}

\* the notifications that are addressed to a whole call
Broadcasts ==
  {"call_participant_joined", "call_participant_invited", "call_participant_rejected",
   "call_participant_left", "call_ended"}

\* every such notification about call c among msgs is addressed to every
\* connection, with its listeners attached, of every user in members
ReachesAll(msgs, c, members) ==
  \A m \in msgs :
    (m.ev \in Broadcasts /\ m.callId = c) =>
      \A u \in members : getUserSockets(Ready, u) \subseteq m.to

\* C21: call-wide broadcasts reach all devices.  Whatever event makes the
\* server notify a call (an accept, an invite, a reject, a leave, a lost
\* connection, each handled without interleaving), the notification is
\* addressed to every live connection of every user who is a confirmed
\* participant of the session when it is sent
C21_BroadcastAllDevices ==
  \A c \in DOMAIN activeCalls :
    /\ \A s \in Ready :
         /\ LET r == callAcceptThrough(Store, Live, s, NoUser, c)
            IN ReachesAll(r.out, c, DOMAIN r.activeCalls[c].participants)
         /\ ReachesAll(handleCallReject(Store, Live, s, NoUser, c).out, c, Members(c))
         /\ \A target \in Users :
              ReachesAll(addParticipantThrough(Store, Live, s, c, target).out, c, Members(c))
         /\ userCalls[Owner(s)] = c =>
              ReachesAll(handleCallEnd(Store, Live, s).out, c, Members(c) \ {Owner(s)})
    /\ \A s \in Disconnecting :
         userCalls[Owner(s)] = c =>
           ReachesAll(handleDisconnection(StoreWithout(s), MapWithout(s), s).out, c,
                      Members(c) \ {Owner(s)})

\* a handling that emits call_error emits nothing else, to the requesting
\* socket alone, and leaves activeCalls and userCalls as they were
FailsClosed(r, s) == Emitted(r.out, "call_error") # {} => Refused(r, s)

\* C22: fail closed.  Every handling of an inbound call event that emits
\* call_error emits it to the initiating connection only and leaves activeCalls
\* (participants, pendingInvites and status of every session) and userCalls as
\* they were; the second half of a handler never emits it
C22_FailClosed ==
  /\ \A s \in Ready : \A callId \in CallIds :
       /\ \A targets \in SUBSET Users : \A offer \in Offers :
            FailsClosed(handleCallRequest(Store, Live, s, targets, offer), s)
       /\ \A u \in Users \cup {NoUser} :
            /\ FailsClosed(handleCallAccept(Store, Live, s, u, callId), s)
            /\ FailsClosed(handleCallReject(Store, Live, s, u, callId), s)
            /\ \A payload \in Offers :
                 /\ FailsClosed(handleCallAnswerSend(Store, Live, s, u, payload, callId), s)
                 /\ FailsClosed(handleCallOfferSend(Store, Live, s, u, payload, callId), s)
                 /\ FailsClosed(handleIceCandidate(Store, Live, s, u, payload, callId), s)
       /\ \A target \in Users :
            FailsClosed(handleAddParticipant(Store, Live, s, callId, target), s)
       /\ FailsClosed(handleCallChatMessage(Store, Live, s, callId), s)
       /\ FailsClosed(handleCallEnd(Store, Live, s), s)
       /\ Emitted(handleGetCallInfo(Store, Live, s).out, "call_error") = {}
  /\ \A s \in Disconnecting :
       Emitted(handleDisconnection(StoreWithout(s), MapWithout(s), s).out, "call_error") = {}
  /\ \A i \in 1..Len(awaiting) :
       LET k == awaiting[i]
           r == IF k.kind = "request" THEN resumeCallRequest(Store, Live, k, nextCallId)
                ELSE IF k.kind = "accept" THEN resumeCallAccept(Store, Live, k)
                ELSE IF k.kind = "invite" THEN namedAddParticipant(Store, Live, k)
                ELSE resumeAddParticipant(Store, Live, k)
       IN Emitted(r.out, "call_error") = {}

\* C22 witness: in a session with a confirmed joiner and a pending invitee, an
\* invite of a user who is not connected, an invite of the pending user, a
\* call_request of the joiner and a chat message to no call are all refused
C22_Witness ==
  \E s \in Ready : \E c \in DOMAIN activeCalls : \E target, absent \in Users :
    /\ Owner(s) \in Members(c) \ {activeCalls[c].hostId}
    /\ target \in activeCalls[c].pendingInvites
    /\ absent \notin Members(c) \cup activeCalls[c].pendingInvites
    /\ userCalls[absent] = NoCall /\ getUserSockets(Live, absent) = {}
    /\ Refused(handleAddParticipant(Store, Live, s, c, absent), s)
    /\ Refused(handleAddParticipant(Store, Live, s, c, target), s)
    /\ Refused(handleCallRequest(Store, Live, s, {target}, 1), s)
    /\ Refused(handleCallChatMessage(Store, Live, s, NoCall), s)

\* C23: mesh discoverability on join.  When a pending invitee's call_accept
\* succeeds (its lookup returning at once), the call_offer sent to the joiner
\* carries the session's offer and the list of the confirmed participants,
\* joiner included, and every participant confirmed before, who has a live
\* connection, gets call_participant_joined naming the joiner
C23_MeshOnJoin ==
  \A s \in Ready : \A c \in DOMAIN activeCalls :
    Owner(s) \in activeCalls[c].pendingInvites \ Members(c) =>
      LET r == callAcceptThrough(Store, Live, s, NoUser, c)
          offers == {m \in Emitted(r.out, "call_offer") : s \in m.to}
      IN /\ offers # {}
         /\ \A m \in offers :
              /\ m.callId = c
              /\ m.payload = activeCalls[c].offer
              /\ m.users = Members(c) \cup {Owner(s)}
         /\ \A u \in Members(c) :
              getUserSockets(Live, u) # {} =>
                \E m \in Delivered(r.out, "call_participant_joined", c, u) :
                  m.user = Owner(s)

\* C24: get-call-info is a pure query.  call_get_info answers the requesting
\* socket alone with one call_info: `inCall: false` exactly when the requester
\* has no userCalls entry, otherwise the participants, pendingInvites, hostId
\* and isHost of the session userCalls names; activeCalls, userCalls and the
\* rooms are unchanged
C24_GetInfoPure ==
  \A s \in Ready :
    LET u == Owner(s)
        r == handleGetCallInfo(Store, Live, s)
    IN /\ r.activeCalls = activeCalls /\ r.userCalls = userCalls /\ r.rooms = rooms
       /\ r.cont = << >>
       /\ Cardinality(r.out) = 1
       /\ \A m \in r.out :
            /\ m.ev = "call_info" /\ m.to = {s}
            /\ m.inCall = (userCalls[u] # NoCall)
            /\ userCalls[u] # NoCall =>
                 /\ userCalls[u] \in DOMAIN activeCalls
                 /\ m.callId = userCalls[u]
                 /\ m.participants = activeCalls[userCalls[u]].participants
                 /\ m.pendingInvites = activeCalls[userCalls[u]].pendingInvites
                 /\ m.hostId = activeCalls[userCalls[u]].hostId
                 /\ m.isHost = (activeCalls[userCalls[u]].hostId = u)

\* C24 witness: a joiner of a call that still has a pending invitee asks, and
\* so can a connected user who is in no call, after another call has ended
C24_Witness ==
  \E s, x \in Ready :
    /\ Ended # {}
    /\ userCalls[Owner(s)] \in DOMAIN activeCalls
    /\ activeCalls[userCalls[Owner(s)]].hostId # Owner(s)
    /\ activeCalls[userCalls[Owner(s)]].pendingInvites # {}
    /\ userCalls[Owner(x)] = NoCall
    /\ \A m \in handleGetCallInfo(Store, Live, s).out : m.inCall /\ ~m.isHost
    /\ \A m \in handleGetCallInfo(Store, Live, x).out : ~m.inCall

\* the indices of the call_request handlers of user u that are suspended at the
\* name lookup, having named somebody else
Requesting(u) ==
  {i \in 1..Len(awaiting) :
     /\ awaiting[i].kind = "request"
     /\ Owner(awaiting[i].sock) = u
     /\ u \notin {a.userId : a \in awaiting[i].available}}

\* the sessions of the store st that user u hosts
HostedBy(st, u) == {c \in DOMAIN st.activeCalls : st.activeCalls[c].hostId = u}

\* C25: concurrent call creation.  When two call_request events of one user
\* are both suspended at the display-name lookup, their two resumptions do not
\* both create a session: afterwards the user hosts at most one session more
\* than before, and at most one session in all
C25_OneCreation ==
  \A u \in Users : \A i, j \in Requesting(u) :
    i # j =>
      LET r1 == resumeCallRequest(Store, Live, awaiting[i], nextCallId)
          r2 == resumeCallRequest(r1, Live, awaiting[j], nextCallId + 1)
      IN /\ Cardinality(DOMAIN r2.activeCalls \ DOMAIN activeCalls) <= 1
         /\ HostedBy(Store, u) = {} => Cardinality(HostedBy(r2, u)) <= 1

\* the sockets whose loss the server has received and whose 'disconnect'
\* listener has not reached callHandler.handleDisconnection yet
Closing == {s \in Socks : conn[s] = "closing"}

\* C26: receipt-order application.  An event is handled in a state to which
\* every event received before it has been applied.  While a socket can send
\* an event: (a) no loss of a user's last connection is still waiting to be
\* applied to the session the user hosts, so that a call_accept or a
\* call_add_participant for that session finds it gone; (b) the caller of every
\* call_request received and not refused is registered in userCalls
C26_ReceiptOrder ==
  Ready # {} =>
    /\ \A s \in Closing : \A c \in DOMAIN activeCalls :
         ( /\ activeCalls[c].hostId = Owner(s)
           /\ userCalls[Owner(s)] = c
           /\ getUserSockets(Live, Owner(s)) = {} ) =>
             /\ \A x \in Ready :
                  Owner(x) \in activeCalls[c].pendingInvites =>
                    Refused(handleCallAccept(Store, Live, x, NoUser, c), x)
             /\ \A x \in Ready : \A target \in Users :
                  Refused(handleAddParticipant(Store, Live, x, c, target), x)
    /\ \A i \in 1..Len(awaiting) :
         awaiting[i].kind = "request" => isUserInCall(Store, Owner(awaiting[i].sock))

\* C27: no revert to ringing.  A session of activeCalls whose status is
\* `active` is, in the next state and so in every later one, `active` or
\* removed; call ids are never handed out twice
C27_NoRevert ==
  [][\A c \in DOMAIN activeCalls :
       (activeCalls[c].status = "active" /\ c \in DOMAIN activeCalls') =>
          activeCalls'[c].status = "active"]_vars

\* C27 witness: an active session whose joiner has left, down to its host (who
\* never sent call_accept itself), with another user still invited
C27_Witness ==
  \E c \in DOMAIN activeCalls :
    /\ activeCalls[c].status = "active"
    /\ Members(c) = {activeCalls[c].hostId}
    /\ activeCalls[c].participants[activeCalls[c].hostId] = "connected"
    /\ activeCalls[c].pendingInvites # {}
    /\ \A u \in activeCalls[c].pendingInvites : u # activeCalls[c].hostId

\* the sessions of activeCalls that are ringing
Ringing == {c \in DOMAIN activeCalls : activeCalls[c].status = "ringing"}

\* C28: ringing shape.  Every ringing session of activeCalls has somebody in
\* pendingInvites and its host among the keys of participants; and a ringing
\* session is `active` in the next state only by a call_accept step
C28_RingingShape ==
  /\ [](\A c \in Ringing :
          /\ activeCalls[c].pendingInvites # {}
          /\ activeCalls[c].hostId \in Members(c))
  /\ [][\A c \in Ringing :
          (c \in DOMAIN activeCalls' /\ activeCalls'[c].status = "active") =>
             \E s \in Socks, callerId \in Users \cup {NoUser},
                callId \in DOMAIN activeCalls \cup {NoCall} :
               /\ CallAccept(s, callerId, callId)
               /\ findCall(activeCalls, callId, callerId, Owner(s)) = c]_vars

\* C28 witness: a session is ringing after another session has ended, and the
\* rejection of its only invitee would end it
C28_Witness ==
  \E c \in Ringing : \E s \in Ready :
    /\ Ended # {}
    /\ activeCalls[c].pendingInvites = {Owner(s)}
    /\ Owner(s) # activeCalls[c].hostId
    /\ c \notin DOMAIN handleCallReject(Store, Live, s, NoUser, c).activeCalls

\* the session a call_answer_send of user u with this callId refers to:
\* data.callId, or the session of u when the field is absent (NoCall: none)
AnswersTo(u, callId) ==
  IF callId # NoCall THEN (IF callId \in DOMAIN activeCalls THEN callId ELSE NoCall)
  ELSE IF userCalls[u] \in DOMAIN activeCalls THEN userCalls[u] ELSE NoCall

\* C29: markConnected.  A call_answer_send of user u sets the status of u to
\* `connected` in the session it refers to if u is a key of that session's
\* participants, and changes nothing otherwise: no participant is added, no
\* other participant's status, no pendingInvites, no session status, no other
\* session and no userCalls entry changes
C29_MarkConnected ==
  \A s \in Ready : \A callId \in CallIds : \A target \in Users \cup {NoUser} :
    \A answer \in Offers :
      LET u == Owner(s)
          c == AnswersTo(u, callId)
          r == handleCallAnswerSend(Store, Live, s, target, answer, callId)
      IN /\ r.userCalls = userCalls /\ r.rooms = rooms /\ r.cont = << >>
         /\ IF c # NoCall /\ u \in Members(c)
            THEN r.activeCalls = [activeCalls EXCEPT ![c].participants[u] = "connected"]
            ELSE r.activeCalls = activeCalls

\* C29 witness: a joiner whose status is `connecting` sends its answer, and a
\* pending invitee of the same session sends one naming the session
C29_Witness ==
  \E s, x \in Ready : \E c \in DOMAIN activeCalls :
    /\ userCalls[Owner(s)] = c
    /\ Owner(s) \in Members(c) /\ activeCalls[c].participants[Owner(s)] = "connecting"
    /\ Owner(x) \in activeCalls[c].pendingInvites \ Members(c)
    /\ handleCallAnswerSend(Store, Live, s, Owner(x), 1, NoCall).activeCalls[c]
            .participants[Owner(s)] = "connected"
    /\ handleCallAnswerSend(Store, Live, x, Owner(s), 1, c).activeCalls = activeCalls

\* msgs is one message of event ev to each live connection of user target and
\* nothing else, each with the payload, the sender and the call id
Relayed(msgs, ev, target, from, callId, payload) ==
  /\ \A x \in getUserSockets(Live, target) : Cardinality({m \in msgs : x \in m.to}) = 1
  /\ \A m \in msgs :
       /\ m.ev = ev
       /\ m.to # {} /\ m.to \subseteq getUserSockets(Live, target)
       /\ m.payload = payload /\ m.by = from /\ m.callId = callId

\* C30: point-to-point relay.  call_offer_send, call_answer_send and
\* call_ice_candidate deliver one message to each live connection of the named
\* target and to no other connection, with the payload as sent, the sender and
\* the call id (for an answer without call id, the sender's userCalls entry);
\* the offer and candidate relays leave activeCalls, userCalls and the rooms
\* unchanged; a target without live connection gets nothing, and nobody gets
\* an error
C30_PointToPoint ==
  \A s \in Ready : \A target \in Users \cup {NoUser} : \A payload \in Offers :
    \A callId \in CallIds :
      LET o == handleCallOfferSend(Store, Live, s, target, payload, callId)
          i == handleIceCandidate(Store, Live, s, target, payload, callId)
          a == handleCallAnswerSend(Store, Live, s, target, payload, callId)
      IN /\ Relayed(o.out, "call_offer", target, Owner(s), callId, payload)
         /\ Relayed(i.out, "call_ice_candidate", target, Owner(s), callId, payload)
         /\ Relayed(a.out, "call_answer", target, Owner(s),
                    IF callId # NoCall THEN callId ELSE userCalls[Owner(s)], payload)
         /\ o.activeCalls = activeCalls /\ o.userCalls = userCalls /\ o.rooms = rooms
         /\ i.activeCalls = activeCalls /\ i.userCalls = userCalls /\ i.rooms = rooms
         /\ o.cont = << >> /\ i.cont = << >> /\ a.cont = << >>
         /\ getUserSockets(Live, target) = {} => o.out = {} /\ i.out = {} /\ a.out = {}

\* C30 witness: a user who is in a call relays an offer to a user connected on
\* two devices, who gets it on both, and one to a user who is not connected
C30_Witness ==
  \E s \in Ready : \E target, absent \in Users \ {Owner(s)} :
    /\ userCalls[Owner(s)] \in DOMAIN activeCalls
    /\ Cardinality(getUserSockets(Live, target)) = 2
    /\ getUserSockets(Live, absent) = {}
    /\ Cardinality(handleCallOfferSend(Store, Live, s, target, 2, userCalls[Owner(s)]).out) = 2
    /\ handleCallOfferSend(Store, Live, s, absent, 2, userCalls[Owner(s)]).out = {}

\* the connections whose handleConnection registers them in this step, and
\* those whose 'disconnect' listener unregisters them in this step
Registering == {s \in Socks : conn[s] = "off" /\ conn'[s] # "off"}
Unregistering == {s \in Socks : conn[s] = "ready" /\ conn'[s] \in {"closing", "closed"}}

\* C31: presence bookkeeping.  userSockets gains exactly the connection that
\* handleConnection registers and loses exactly the one that
\* handleDisconnection unregisters, so it is always the connections registered
\* and not yet unregistered: it holds every live connection and none that was
\* unregistered or never opened; isUserOnline(u) is true iff u has a
\* connection in it; and getUserSockets(u) is exactly the live connections
\* whose userId is u
C31_PresenceBookkeeping ==
  /\ [][userSockets' = (userSockets \cup Registering) \ Unregistering]_vars
  /\ [](/\ Live \subseteq userSockets
        /\ \A s \in userSockets : conn[s] \in {"connecting", "ready", "closed"}
        /\ \A u \in Users :
             /\ isUserOnline(userSockets, u) <=> \E s \in userSockets : Owner(s) = u
             /\ getUserSockets(Live, u)
                  = {s \in Socks : Owner(s) = u /\ conn[s] \in {"connecting", "ready"}})

\* C31 witness: user 1 has registered two connections and the first is
\* unregistered again; the second keeps the user online, user 2 is offline
C31_Witness ==
  /\ conn[1] = "closed" /\ 1 \notin userSockets
  /\ conn[4] = "ready" /\ 4 \in userSockets
  /\ isUserOnline(userSockets, 1) /\ ~isUserOnline(userSockets, 2)

\* a message without the names it carries
Unnamed(m) == [m EXCEPT !.name = "", !.users = {}]

\* the step of the suspended handler k when its lookup has the outcome db
Resumed(k, db) ==
  IF k.kind = "invited" THEN afterGetUsersInfo(Store, Live, k, db)
  ELSE afterGetUserName(Store, Live, k,
                        IF k.kind = "request" THEN nextCallId ELSE k.callId, db)

\* C32: directory failures are absorbed.  Whatever the lookup a suspended
\* call_request, call_accept or call_add_participant waits for yields (a row,
\* no row, a rejected query), the handler goes on to the same activeCalls,
\* userCalls and rooms and the same emissions as with a row, the names apart:
\* a call_request registers its session; without a row the name sent is the
\* placeholder and the list of participant names is empty
C32_LookupAbsorbed ==
  \A i \in 1..Len(awaiting) : \A db \in Lookups :
    LET k == awaiting[i]
        ok == Resumed(k, "found")
        r == Resumed(k, db)
    IN /\ r.activeCalls = ok.activeCalls /\ r.userCalls = ok.userCalls /\ r.rooms = ok.rooms
       /\ {Unnamed(m) : m \in r.out} = {Unnamed(m) : m \in ok.out}
       /\ Len(r.cont) = Len(ok.cont)
       /\ k.kind = "request" =>
            /\ nextCallId \in DOMAIN r.activeCalls
            /\ r.userCalls[Owner(k.sock)] = nextCallId
            /\ Emitted(r.out, "call_created") # {}
       /\ k.kind = "invite" => r.cont # << >> /\ r.cont[1].kind = "invited"
       /\ db # "found" /\ k.kind # "invited" =>
            /\ \A m \in r.out : m.name \in {"", Placeholder}
            /\ \A j \in 1..Len(r.cont) : r.cont[j].name = Placeholder
       /\ db # "found" /\ k.kind = "invited" =>
            \A m \in Emitted(r.out, "call_incoming") : m.users = {}

\* C32 witness: a call_request is suspended at its lookup; with the query
\* rejected the session is registered and the invitation carries the
\* placeholder name
C32_Witness ==
  \E i \in 1..Len(awaiting) :
    /\ awaiting[i].kind = "request"
    /\ LET r == Resumed(awaiting[i], "failed")
       IN /\ nextCallId \in DOMAIN r.activeCalls
          /\ \E m \in Emitted(r.out, "call_incoming") : m.name = Placeholder

\* the call_request handlers suspended at `await this.getUserName(callerId)`
Suspended == {i \in 1..Len(awaiting) : awaiting[i].kind = "request"}

C34_RejectByNonInvitee ==
  \A s \in Ready : \A c \in DOMAIN activeCalls : \A callerId \in Users \cup {NoUser} :
    Owner(s) \notin activeCalls[c].pendingInvites =>
      LET r == handleCallReject(Store, Live, s, callerId, c)
      IN /\ c \in DOMAIN r.activeCalls
         /\ r.activeCalls[c].participants = activeCalls[c].participants
         /\ r.activeCalls[c].pendingInvites = activeCalls[c].pendingInvites
         /\ r.activeCalls[c].status = activeCalls[c].status

\* every notification or chat message about call c among msgs is addressed to
\* connections of users in members only
Confined(msgs, c, members) ==
  \A m \in msgs :
    (m.ev \in Broadcasts \cup {"call_chat_message"} /\ m.callId = c) =>
      \A x \in m.to : Owner(x) \in members

\* the confirmed participants of call c in the state st (none once c has ended)
MembersIn(st, c) ==
  IF c \in DOMAIN st.activeCalls THEN DOMAIN st.activeCalls[c].participants ELSE {}

\* C35: broadcast confinement.  Whatever event makes the server notify call c
\* (an accept, an invite, a reject, a leave, a lost connection, a chat message,
\* the return of a lookup), no notification and no chat message about c is
\* addressed to a connection of a user who is not a confirmed participant of c
\* when it is sent
C35_BroadcastConfined ==
  /\ \A c \in DOMAIN activeCalls :
       /\ \A s \in Ready :
            /\ LET r == callAcceptThrough(Store, Live, s, NoUser, c)
               IN Confined(r.out, c, MembersIn(r, c))
            /\ Confined(handleCallReject(Store, Live, s, NoUser, c).out, c, Members(c))
            /\ \A target \in Users :
                 Confined(addParticipantThrough(Store, Live, s, c, target).out, c, Members(c))
            /\ Confined(handleCallChatMessage(Store, Live, s, c).out, c, Members(c))
            /\ userCalls[Owner(s)] = c =>
                 Confined(handleCallEnd(Store, Live, s).out, c, Members(c) \ {Owner(s)})
       /\ \A s \in Disconnecting :
            userCalls[Owner(s)] = c =>
              Confined(handleDisconnection(StoreWithout(s), MapWithout(s), s).out, c,
                       Members(c) \ {Owner(s)})
  /\ \A i \in 1..Len(awaiting) : \A db \in Lookups :
       awaiting[i].kind \in {"accept", "invited"} =>
         Confined(Resumed(awaiting[i], db).out, awaiting[i].callId,
                  MembersIn(Store, awaiting[i].callId))

\* C36: participant status is monotonic.  No step takes a user who is and
\* remains a confirmed participant of a session from `connected` back to
\* `connecting`
C36_StatusMonotonic ==
  [][\A c \in DOMAIN activeCalls \cap DOMAIN activeCalls' :
       \A u \in DOMAIN activeCalls[c].participants \cap DOMAIN activeCalls'[c].participants :
         activeCalls[c].participants[u] = "connected"
           => activeCalls'[c].participants[u] = "connected"]_vars

\* C37: no orphaned occupants.  Once every disconnect event received has been
\* handled to its end, every user with a userCalls entry and every host of a
\* registered session has a live connection
C37_NoOrphans ==
  Closing = {} =>
    /\ \A u \in Users : userCalls[u] # NoCall => getUserSockets(Live, u) # {}
    /\ \A c \in DOMAIN activeCalls : getUserSockets(Live, activeCalls[c].hostId) # {}

\* C38: no stale presence.  A connection that has been lost, with the handlers
\* of its loss finished, is not in ChatHandler.userSockets, and its user is
\* reported offline unless another connection of the user is live or is still
\* being disconnected
C38_NoStalePresence ==
  \A s \in Socks :
    conn[s] = "closed" =>
      /\ s \notin userSockets
      /\ (\A x \in Socks : Owner(x) = Owner(s) => conn[x] \in {"off", "closed"})
           => ~isUserOnline(userSockets, Owner(s))

\* C39: termination is local to the session.  endCall(c) clears the userCalls
\* entry of no user whose entry refers to another session, and leaves every
\* other session of activeCalls as it was
C39_TerminationLocal ==
  \A c \in DOMAIN activeCalls :
    LET r == endCall(Store, Live, c, "ended")
    IN /\ \A u \in Users : userCalls[u] # c => r.userCalls[u] = userCalls[u]
       /\ \A d \in DOMAIN activeCalls \ {c} :
            d \in DOMAIN r.activeCalls /\ r.activeCalls[d] = activeCalls[d]

====
